---- MODULE Spec2Model ----
(***************************************************************************)
(* Model of the music-passport backend:                                    *)
(*   backend/routers/community.py  in-memory community store               *)
(*   backend/routers/passport.py   country resolver and region rollup      *)
(*                                                                         *)
(* Python objects that are shared by reference (the community dicts and    *)
(* their member lists) live in two heaps, comm_objs and list_objs, so that *)
(* a half-finished request keeps pointing at the object it loaded.         *)
(***************************************************************************)
EXTENDS Integers, Sequences, FiniteSets, TLC

VARIABLES
    communities,       \* community.py:54   join code -> id of the community dict
    comm_objs,         \* the community dicts: id -> [name, members (a list id)]
    list_objs,         \* the member lists:    id -> sequence of member dicts
    response,          \* what the last finished handler returned or raised
    joined,            \* history: join code -> user id -> snapshot of that user's
                       \* last successful join since the community was created
    req,               \* the community_join requests in flight (one per worker)
    MB_COUNTRY_CACHE,  \* passport.py:94
    USE_MB,            \* passport.py:39
    mb_requests,       \* requests.get calls issued to MusicBrainz, per artist name
    res,               \* the resolver calls in flight (one per worker)
    calls,             \* history: requests started so far in a concurrent run
    since_mb           \* history: ticks of the clock since requests.get was last
                       \* called; MaxElapsed stands for that long or longer

vars == <<communities, comm_objs, list_objs, response, joined, req,
          MB_COUNTRY_CACHE, USE_MB, mb_requests, res, calls, since_mb>>

storeVars    == <<communities, comm_objs, list_objs, req>>
resolverVars == <<MB_COUNTRY_CACHE, USE_MB, mb_requests, res, calls, since_mb>>

-----------------------------------------------------------------------------
(* Bounds and sample inputs *)

MaxItems   == 1      \* longest "items" list the catalog returns for a token
NumUsers   == 2      \* distinct Spotify user ids
NumWorkers == 2      \* requests that can be in flight at once
MaxCalls   == 3      \* requests started in one concurrent run
MaxElapsed == 1      \* ticks since the last MusicBrainz request that are told apart
MaxLookups == 3      \* MusicBrainz requests per name that are told apart

Codes          == {"AB12CD", "XY34ZT"}     \* values _new_code can return
DisplayNameOf  == <<"Alice", "Bob", "Carol", "Dave">>   \* by Spotify user id
SpotifyIds     == 1..NumUsers
NoId           == 0                         \* /me gave no usable "id"
Workers        == 1..NumWorkers

None     == "None"          \* Python's None where a string is expected
NoRef    == 0               \* a local variable that holds no object
EmptyDict == [x \in {} |-> 0]

-----------------------------------------------------------------------------
(* Arithmetic helpers *)

RECURSIVE SumOver(_, _)
SumOver(f, S) ==                       \* sum(f[x] for x in S)
    IF S = {} THEN 0
    ELSE LET x == CHOOSE y \in S : TRUE IN f[x] + SumOver(f, S \ {x})

RECURSIVE GCD(_, _)
GCD(a, b) == IF b = 0 THEN a ELSE GCD(b, a % b)

\* cnt / total of passport.py:74: the quotient as a fraction in lowest terms,
\* so that two quotients are equal exactly when their values are.
Quot(cnt, total) == LET g == GCD(cnt, total) IN <<cnt \div g, total \div g>>

-----------------------------------------------------------------------------
(* passport.py: static tables and the region rollup *)

COUNTRY_TO_REGION ==
    [c \in {"United States", "Canada", "Mexico", "US", "CA"} |-> "North America"] @@
    [c \in {"United Kingdom", "Ireland", "Germany", "France", "Spain", "Italy",
            "Netherlands", "Sweden", "Norway", "Finland", "Denmark", "Poland",
            "Portugal", "Russia", "GB", "FR", "DE", "ES", "IT", "SE"} |-> "Europe"] @@
    [c \in {"Japan", "South Korea", "China", "India", "JP", "KR", "CN", "IN"} |-> "Asia"] @@
    [c \in {"Australia", "New Zealand", "AU", "NZ"} |-> "Oceania"] @@
    [c \in {"Brazil", "Argentina", "Chile", "Colombia", "BR", "AR", "CL", "CO"}
        |-> "South America"] @@
    [c \in {"South Africa", "Nigeria", "Egypt", "ZA", "NG", "EG"} |-> "Africa"]

region_of(country) ==
    IF country \in {None, ""} THEN None
    ELSE IF country \in DOMAIN COUNTRY_TO_REGION THEN COUNTRY_TO_REGION[country]
    ELSE None

\* region_of(country) or "Unknown"
RegionOrUnknown(country) ==
    IF region_of(country) = None THEN "Unknown" ELSE region_of(country)

\* faulty variant: "reg_counts[reg] = cnt" in place of adding cnt
rollup_regions_LastCountryWins(country_counts) ==
    LET total == SumOver(country_counts, DOMAIN country_counts)
        regs  == {RegionOrUnknown(c) : c \in DOMAIN country_counts}
        reg_counts ==
            [r \in regs |->
                country_counts[CHOOSE c \in DOMAIN country_counts :
                                   RegionOrUnknown(c) = r]]
    IN  IF total = 0 THEN EmptyDict
        ELSE [r \in regs |-> Quot(reg_counts[r], total)]

\* faulty variant: a total of zero is reported as 100% Unknown
rollup_regions_UnknownWhenZero(country_counts) ==
    LET total == SumOver(country_counts, DOMAIN country_counts)
        regs  == {RegionOrUnknown(c) : c \in DOMAIN country_counts}
        reg_counts ==
            [r \in regs |->
                SumOver(country_counts,
                        {c \in DOMAIN country_counts : RegionOrUnknown(c) = r})]
    IN  IF total = 0 THEN "Unknown" :> <<1, 1>>
        ELSE [r \in regs |-> Quot(reg_counts[r], total)]

\* passport.py:66-74
rollup_regions(country_counts) ==
    LET total == SumOver(country_counts, DOMAIN country_counts)
        regs  == {RegionOrUnknown(c) : c \in DOMAIN country_counts}
        reg_counts ==
            [r \in regs |->
                SumOver(country_counts,
                        {c \in DOMAIN country_counts : RegionOrUnknown(c) = r})]
    IN  IF total = 0 THEN EmptyDict
        ELSE [r \in regs |-> Quot(reg_counts[r], total)]

-----------------------------------------------------------------------------
(* passport.py: the country resolver *)

QUICK_COUNTRY_SEEDS ==
    "Taylor Swift" :> "United States" @@ "Drake" :> "Canada" @@
    "Bad Bunny" :> "Puerto Rico" @@ "Adele" :> "United Kingdom" @@
    "BTS" :> "South Korea" @@ "BLACKPINK" :> "South Korea" @@
    "Daft Punk" :> "France" @@ "Arctic Monkeys" :> "United Kingdom" @@
    "The Beatles" :> "United Kingdom" @@ "Kendrick Lamar" :> "United States" @@
    "YOASOBI" :> "Japan" @@ "IU" :> "South Korea" @@ "Rammstein" :> "Germany"

\* sample artist names: two seeded, two not
ArtistNames == {"Drake", "Bad Bunny", "Stromae", "UnknownArtist"}

Absent == "<absent>"        \* a key the candidate does not have

\* What the MusicBrainz request of passport.py:113-115 can come to: an
\* exception (requests.get times out, raise_for_status sees a non-2xx status,
\* r.json() meets a malformed body), or a body with no candidate or one.  A
\* candidate's "country" is missing, null, empty or a code; its "area" and
\* "begin-area" are missing (or no dict), a dict without a usable name
\* (None), or a dict with a name.
MbExceptions == {"Timeout", "HTTPError", "JSONDecodeError"}

MbCandidates ==
    [country : {Absent, None, "", "BE"},
     area : {Absent, None, "Belgium"},
     begin_area : {Absent, "Brussels"}]

MbResponses ==
    {[kind |-> "raise", exc |-> e, artists |-> <<>>] : e \in MbExceptions} \cup
    {[kind |-> "body", exc |-> None, artists |-> <<>>]} \cup
    {[kind |-> "body", exc |-> None, artists |-> <<a>>] : a \in MbCandidates}

\* no request was made
NoMb == [kind |-> None, exc |-> None, artists |-> <<>>]

\* a worker that runs no resolver call
IdleRes == [pc |-> "idle", name |-> None]

\* passport.py:121-126  the first of "area", "begin-area" that is a dict with a
\* truthy name, None when there is none
AreaName(a) ==
    IF a.area \notin {Absent, None, ""} THEN a.area
    ELSE IF a.begin_area \notin {Absent, None, ""} THEN a.begin_area
    ELSE None

\* passport.py:110-126  the body of the try: it returns a value (which has
\* been written to the cache), raises, or falls through
TryBody(mb) ==
    IF mb.kind = "raise" THEN [kind |-> "raise", exc |-> mb.exc, value |-> None]
    ELSE IF mb.artists = <<>> THEN [kind |-> "fall", exc |-> None, value |-> None]
    ELSE LET a == mb.artists[1]
         IN  IF a.country # Absent
             THEN [kind |-> "return", exc |-> None, value |-> a.country]
             ELSE IF AreaName(a) # None
             THEN [kind |-> "return", exc |-> None, value |-> AreaName(a)]
             ELSE [kind |-> "fall", exc |-> None, value |-> None]

\* faulty variant: a handler that names one exception class only
Caught_TimeoutOnly(exc) == exc = "Timeout"

\* passport.py:127  except Exception: every exception the request, the status
\* check and the JSON decoding raise is a subclass of Exception
Caught(exc) == exc \in MbExceptions

\* faulty variant: a country that was found is returned without being cached
AfterLookup_ReturnsUncached(artist_name, cache, body) ==
    IF body.kind = "return"
    THEN [raised |-> FALSE, ret |-> body.value, cache |-> cache]
    ELSE IF body.kind = "raise" /\ ~Caught(body.exc)
    THEN [raised |-> TRUE, ret |-> None, cache |-> cache]
    ELSE [raised |-> FALSE, ret |-> None,
          cache |-> (artist_name :> None) @@ cache]

\* faulty variant: the cache is not written when the lookup found nothing
AfterLookup_ForgetsFailure(artist_name, cache, body) ==
    IF body.kind = "return"
    THEN [raised |-> FALSE, ret |-> body.value,
          cache |-> (artist_name :> body.value) @@ cache]
    ELSE IF body.kind = "raise" /\ ~Caught(body.exc)
    THEN [raised |-> TRUE, ret |-> None, cache |-> cache]
    ELSE [raised |-> FALSE, ret |-> None, cache |-> cache]

\* passport.py:109-131 once the response is in: what mb_lookup_country
\* returns (or that it raises) and the cache it leaves
AfterLookup(artist_name, cache, body) ==
    IF body.kind = "return"
    THEN [raised |-> FALSE, ret |-> body.value,
          cache |-> (artist_name :> body.value) @@ cache]
    ELSE IF body.kind = "raise" /\ ~Caught(body.exc)
    THEN [raised |-> TRUE, ret |-> None, cache |-> cache]
    ELSE [raised |-> FALSE, ret |-> None,
          cache |-> (artist_name :> None) @@ cache]

\* passport.py:96-131; use_mb is USE_MB, cache is MB_COUNTRY_CACHE and mb is
\* what the request comes to if one is made.  "requested" tells whether
\* requests.get was called, "tier" which tier answered.
mb_lookup_country(artist_name, use_mb, cache, mb) ==
    IF ~use_mb
    THEN [raised |-> FALSE, ret |-> None, cache |-> cache,
          requested |-> FALSE, tier |-> "disabled"]
    ELSE IF artist_name \in DOMAIN cache
    THEN [raised |-> FALSE, ret |-> cache[artist_name], cache |-> cache,
          requested |-> FALSE, tier |-> "cache"]
    ELSE LET r == AfterLookup(artist_name, cache, TryBody(mb))
         IN  [raised |-> r.raised, ret |-> r.ret, cache |-> r.cache,
              requested |-> TRUE, tier |-> "external"]

\* c or "Unknown" of passport.py:138
OrUnknown(c) == IF c \in {None, ""} THEN "Unknown" ELSE c

\* faulty variant: the lookup is consulted before the seed table
infer_country_fast_LookupFirst(artist_name, use_mb, cache, mb) ==
    LET r == mb_lookup_country(artist_name, use_mb, cache, mb)
    IN  IF r.ret \notin {None, ""} \/ artist_name \notin DOMAIN QUICK_COUNTRY_SEEDS
        THEN [raised |-> r.raised, ret |-> OrUnknown(r.ret), cache |-> r.cache,
              requested |-> r.requested, tier |-> r.tier]
        ELSE [raised |-> r.raised, ret |-> QUICK_COUNTRY_SEEDS[artist_name],
              cache |-> r.cache, requested |-> r.requested, tier |-> "seed"]

\* passport.py:133-138
infer_country_fast(artist_name, use_mb, cache, mb) ==
    IF artist_name \in DOMAIN QUICK_COUNTRY_SEEDS
    THEN [raised |-> FALSE, ret |-> QUICK_COUNTRY_SEEDS[artist_name], cache |-> cache,
          requested |-> FALSE, tier |-> "seed"]
    ELSE LET r == mb_lookup_country(artist_name, use_mb, cache, mb)
         IN  [raised |-> r.raised,
              ret |-> IF r.raised THEN None ELSE OrUnknown(r.ret),
              cache |-> r.cache, requested |-> r.requested, tier |-> r.tier]

-----------------------------------------------------------------------------
(* community.py: helpers *)

\* What spotify_get("/me/top/artists") can hand back: not a dict / no "items"
\* (ok = FALSE), or a list of items of which some may be falsy (FALSE).
RECURSIVE BoolSeqs(_)
BoolSeqs(n) ==
    IF n = 0 THEN {<<>>}
    ELSE BoolSeqs(n - 1) \cup
         {Append(s, b) : s \in {t \in BoolSeqs(n - 1) : Len(t) = n - 1}, b \in BOOLEAN}

TopArtistsData ==
    {[ok |-> FALSE, items |-> <<>>]} \cup
    {[ok |-> TRUE, items |-> s] : s \in BoolSeqs(MaxItems)}

\* What _me_min can hand back.
MeData ==
    {[id |-> NoId, display_name |-> None]} \cup
    {[id |-> i, display_name |-> DisplayNameOf[i]] : i \in SpotifyIds}

snapshot_from_top_artists(data) ==
    IF ~data.ok
    THEN [total_artists |-> 0, country_counts |-> EmptyDict,
          region_percentages |-> EmptyDict]
    ELSE LET total == Cardinality({i \in DOMAIN data.items : data.items[i]})
             country_counts == IF total > 0 THEN ("Unknown" :> total) ELSE EmptyDict
         IN  [total_artists |-> total, country_counts |-> country_counts,
              region_percentages |-> rollup_regions(country_counts)]

\* faulty variant: the comprehension without its condition
WithoutMember_KeepsAll(existing, id) == existing

\* community.py:119  [m for m in existing if m.get("spotify_id") != who["id"]]
WithoutMember(existing, id) == SelectSeq(existing, LAMBDA m : m.spotify_id # id)

\* community.py:121-125  the dict that is appended
NewMember(who, snap) ==
    [spotify_id |-> who.id, display_name |-> who.display_name, snapshot |-> snap]

-----------------------------------------------------------------------------
(* The heaps.  Ids are a modelling device: a fresh object takes the smallest *)
(* id that nothing will refer to once the step is over, and objects nothing  *)
(* refers to any more are dropped, as CPython's reference counting does.     *)

Fresh(used) == CHOOSE i \in 1..(Cardinality(used) + 1) :
                   i \notin used /\ \A j \in 1..(i - 1) : j \in used

\* the member list of the community a join code names
MembersOf(code) == list_objs[comm_objs[communities[code]].members]

EmptySnapshot ==
    [total_artists |-> 0, country_counts |-> EmptyDict, region_percentages |-> EmptyDict]

\* a worker that runs no request on the store.  "removed" and "known" are not
\* locals of a handler: "known" records, for a community_get, the ids whose
\* join on the community had returned when the get began
IdleReq ==
    [pc |-> "idle", code |-> None, who |-> [id |-> NoId, display_name |-> None],
     snap |-> EmptySnapshot, comm |-> NoRef, existing |-> NoRef, target |-> NoRef,
     removed |-> 0, known |-> {}]

\* the objects something still refers to: cm is the communities dict, co the
\* community dicts, rq the requests in flight
LiveComms(cm, rq) ==
    ({cm[k] : k \in DOMAIN cm} \cup {rq[w].comm : w \in Workers}) \ {NoRef}

LiveLists(cm, co, rq) ==
    ({co[c].members : c \in LiveComms(cm, rq)}
        \cup {rq[w].existing : w \in Workers}
        \cup {rq[w].target : w \in Workers}) \ {NoRef}

Restrict(f, S) == [x \in S \cap DOMAIN f |-> f[x]]

-----------------------------------------------------------------------------
(* community.py: endpoints, each run from its first line to its return *)

\* Query(..., min_length=2, max_length=64): the sample names and their lengths
NameLength ==
    "" :> 0 @@ "A" :> 1 @@ "AB" :> 2 @@ "Class A" :> 7 @@
    "<64 characters>" :> 64 @@ "<65 characters>" :> 65

MinNameLength == 2
MaxNameLength == 64

\* faulty variant: min_length=1
NameAccepted_NonEmpty(name) ==
    NameLength[name] >= 1 /\ NameLength[name] <= MaxNameLength

NameAccepted(name) ==
    NameLength[name] >= MinNameLength /\ NameLength[name] <= MaxNameLength

\* community.py:94-98; code is the value _new_code() returned, which is random
\* and is not compared with the codes in use
community_create(name, code) ==
    IF ~NameAccepted(name)
    THEN /\ response' = [op |-> "create", status |-> 422, name |-> name]
         /\ UNCHANGED <<communities, comm_objs, list_objs>>
    ELSE LET kept   == Restrict(communities, DOMAIN communities \ {code})
             comms  == LiveComms(kept, req)
             lists  == LiveLists(kept, comm_objs, req)
             cid    == Fresh(comms)
             lid    == Fresh(lists)
         IN  /\ communities' = (code :> cid) @@ kept
             /\ comm_objs' = (cid :> [name |-> name, members |-> lid])
                                 @@ Restrict(comm_objs, comms)
             /\ list_objs' = (lid :> <<>>) @@ Restrict(list_objs, lists)
             /\ response' = [op |-> "create", status |-> 200, code |-> code,
                             name |-> name]

\* faulty variant: a member that is already listed keeps its old entry
JoinMembers_KeepsOld(comm, who, snap) ==
    LET existing == list_objs[comm_objs[comm].members]
    IN  IF \E i \in DOMAIN existing : existing[i].spotify_id = who.id
        THEN existing
        ELSE Append(existing, NewMember(who, snap))

\* community.py:116-125 on the community dict comm, with nothing in between
JoinMembers(comm, who, snap) ==
    LET existing == list_objs[comm_objs[comm].members]
    IN  Append(WithoutMember(existing, who.id), NewMember(who, snap))

\* faulty variant: communities.setdefault(code, ...) ahead of the 404 check
community_join_RegistersUnknownCode(code, who, data) ==
    IF code \notin DOMAIN communities
    THEN LET comms == LiveComms(communities, req)
             lists == LiveLists(communities, comm_objs, req)
             cid   == Fresh(comms)
             lid   == Fresh(lists)
         IN  /\ communities' = (code :> cid) @@ communities
             /\ comm_objs' = (cid :> [name |-> None, members |-> lid])
                                 @@ Restrict(comm_objs, comms)
             /\ list_objs' = (lid :> <<>>) @@ Restrict(list_objs, lists)
             /\ response' = [op |-> "join", status |-> 404, code |-> code]
    ELSE /\ response' = [op |-> "join", status |-> 400, code |-> code]
         /\ UNCHANGED <<communities, comm_objs, list_objs>>

\* community.py:100-127
community_join(code, who, data) ==
    IF code \notin DOMAIN communities
    THEN /\ response' = [op |-> "join", status |-> 404, code |-> code]
         /\ UNCHANGED <<communities, comm_objs, list_objs>>
    ELSE IF who.id = NoId
    THEN /\ response' = [op |-> "join", status |-> 400, code |-> code]
         /\ UNCHANGED <<communities, comm_objs, list_objs>>
    ELSE LET comm  == communities[code]
             snap  == snapshot_from_top_artists(data)
             co    == [comm_objs EXCEPT ![comm].members = NoRef]
             lists == LiveLists(communities, co, req)
             lid   == Fresh(lists)
             members == JoinMembers(comm, who, snap)
         IN  /\ list_objs' = (lid :> members) @@ Restrict(list_objs, lists)
             /\ comm_objs' = [comm_objs EXCEPT ![comm].members = lid]
             \* "removed" is not in the HTTP body: it records how many entries
             \* line 119 dropped, so that a rejoin can be told from a first join
             /\ response' = [op |-> "join", status |-> 200, code |-> code,
                             members |-> Len(members),
                             removed |-> Len(list_objs[comm_objs[comm].members])
                                           + 1 - Len(members)]
             /\ UNCHANGED communities

\* int(x or 0) of community.py:140 and 142; the counts a snapshot holds are
\* ints (community.py:72-78), on which it changes nothing
IntOrZero(x) == x

\* community.py:141-142  one member's country_counts added into agg_countries
AddCounts(agg_countries, country_counts) ==
    [c \in DOMAIN agg_countries \cup DOMAIN country_counts |->
        (IF c \in DOMAIN agg_countries THEN agg_countries[c] ELSE 0)
      + (IF c \in DOMAIN country_counts THEN IntOrZero(country_counts[c]) ELSE 0)]

\* faulty variant: "total_artists = ..." in place of "total_artists += ..."
RECURSIVE Aggregate_Overwrites(_, _, _)
Aggregate_Overwrites(members, i, acc) ==
    IF i > Len(members) THEN acc
    ELSE LET snap == members[i].snapshot
         IN  Aggregate_Overwrites(members, i + 1,
                 [total_artists |-> IntOrZero(snap.total_artists),
                  agg_countries |-> AddCounts(acc.agg_countries, snap.country_counts)])

\* community.py:136-142  the loop over comm["members"], member by member;
\* acc is [total_artists, agg_countries] after the members before position i
RECURSIVE Aggregate(_, _, _)
Aggregate(members, i, acc) ==
    IF i > Len(members) THEN acc
    ELSE LET snap == members[i].snapshot
         IN  Aggregate(members, i + 1,
                 [total_artists |-> acc.total_artists + IntOrZero(snap.total_artists),
                  agg_countries |-> AddCounts(acc.agg_countries, snap.country_counts)])

\* faulty variant: the group's region shares as the mean of the members' own shares
AddQuot(p, q) == Quot(p[1] * q[2] + q[1] * p[2], p[2] * q[2])

RECURSIVE SumQuot(_, _)
SumQuot(f, S) ==
    IF S = {} THEN <<0, 1>>
    ELSE LET x == CHOOSE y \in S : TRUE IN AddQuot(f[x], SumQuot(f, S \ {x}))

GroupPassport_Averaged(members) ==
    LET agg  == Aggregate(members, 1, [total_artists |-> 0, agg_countries |-> EmptyDict])
        idx  == DOMAIN members
        regs == UNION {DOMAIN members[i].snapshot.region_percentages : i \in idx}
        share(i, r) ==
            IF r \in DOMAIN members[i].snapshot.region_percentages
            THEN members[i].snapshot.region_percentages[r] ELSE <<0, 1>>
        mean(r) == LET sum == SumQuot([i \in idx |-> share(i, r)], idx)
                   IN  Quot(sum[1], sum[2] * Len(members))
    IN  [total_artists |-> agg.total_artists,
         country_counts |-> agg.agg_countries,
         region_percentages |-> [r \in regs |-> mean(r)]]

\* community.py:135-144 and 156-160: the group passport of a member list
GroupPassport(members) ==
    LET agg == Aggregate(members, 1, [total_artists |-> 0, agg_countries |-> EmptyDict])
    IN  [total_artists |-> agg.total_artists,
         country_counts |-> agg.agg_countries,
         region_percentages |-> rollup_regions(agg.agg_countries)]

\* community.py:148-155
MemberSummaries(members) ==
    [i \in DOMAIN members |->
        [spotify_id |-> members[i].spotify_id,
         display_name |-> members[i].display_name,
         total_artists |-> members[i].snapshot.total_artists]]

\* community.py:129-161
community_get(code) ==
    /\ IF code \notin DOMAIN communities
       THEN response' = [op |-> "get", status |-> 404, code |-> code]
       ELSE response' = [op |-> "get", status |-> 200, code |-> code,
                         name |-> comm_objs[communities[code]].name,
                         members |-> MemberSummaries(MembersOf(code)),
                         group_passport |-> GroupPassport(MembersOf(code))]
    /\ UNCHANGED <<communities, comm_objs, list_objs>>

-----------------------------------------------------------------------------
(* The store with one request at a time *)

NoResponse == [op |-> "none", status |-> 0]

Init ==
    /\ communities = EmptyDict
    /\ comm_objs = EmptyDict
    /\ list_objs = EmptyDict
    /\ response = NoResponse
    /\ joined = EmptyDict
    /\ req = [w \in Workers |-> IdleReq]
    /\ MB_COUNTRY_CACHE = EmptyDict
    /\ USE_MB = FALSE          \* PASSPORT_USE_MB is unset by default
    /\ mb_requests = [n \in ArtistNames |-> 0]
    /\ res = [w \in Workers |-> IdleRes]
    /\ calls = 0
    /\ since_mb = MaxElapsed

\* the history after a step that ended with the response resp
JoinedAfterCreate(code, resp) ==
    IF resp.status = 200 THEN (code :> EmptyDict) @@ joined ELSE joined

JoinedAfterJoin(code, who, snap, resp) ==
    IF resp.status = 200
    THEN [joined EXCEPT ![code] = (who.id :> snap) @@ @]
    ELSE joined

\* one whole community_create call as a step
CreateRequest(name, code) ==
    /\ community_create(name, code)
    /\ joined' = JoinedAfterCreate(code, response')
    /\ UNCHANGED <<req, resolverVars>>

Create ==
    \E name \in DOMAIN NameLength, code \in Codes : CreateRequest(name, code)

\* one whole community_join call as a step
JoinCall(code, who, data) ==
    /\ community_join(code, who, data)
    /\ joined' = JoinedAfterJoin(code, who, snapshot_from_top_artists(data), response')
    /\ UNCHANGED <<req, resolverVars>>

Join ==
    \E code \in Codes, who \in MeData, data \in TopArtistsData :
        JoinCall(code, who, data)

Get ==
    \E code \in Codes :
        /\ community_get(code)
        /\ UNCHANGED <<joined, req, resolverVars>>

Next == Create \/ Join \/ Get

Spec == Init /\ [][Next]_vars

-----------------------------------------------------------------------------
(* Properties of the store, one request at a time (Spec) *)

MemberIds(members) == {members[i].spotify_id : i \in DOMAIN members}

Positions(members, id) == {i \in DOMAIN members : members[i].spotify_id = id}

\* C1: in every reachable state every community's member list holds at most
\* one member per spotify_id.
C1_OneMemberPerId ==
    \A code \in DOMAIN communities :
        \A i, j \in DOMAIN MembersOf(code) :
            MembersOf(code)[i].spotify_id = MembersOf(code)[j].spotify_id => i = j

\* a rejoin has just returned, in a community that has another member too
C1_Witness ==
    /\ response.op = "join" /\ response.status = 200
    /\ response.removed = 1 /\ response.members = 2

\* C3: a successful join by an id that is already a member leaves the number
\* of members unchanged, leaves every other member's entry unchanged, and
\* leaves that id with exactly one entry, holding the new snapshot.
C3_RejoinReplaces ==
    [][\A code \in Codes, who \in MeData, data \in TopArtistsData :
          ( /\ code \in DOMAIN communities
            /\ who.id # NoId
            /\ who.id \in MemberIds(MembersOf(code))
            /\ JoinCall(code, who, data) )
          => LET before == MembersOf(code)
                 after  == MembersOf(code)'
             IN  /\ Len(after) = Len(before)
                 /\ \A i \in DOMAIN before :
                        before[i].spotify_id # who.id
                            => \E j \in DOMAIN after : after[j] = before[i]
                 /\ Cardinality(Positions(after, who.id)) = 1
                 /\ \A j \in Positions(after, who.id) :
                        after[j].snapshot = snapshot_from_top_artists(data)
      ]_vars

\* a rejoin has just replaced a snapshot by a different one, next to another member
C3_Witness ==
    /\ response.op = "join" /\ response.status = 200 /\ response.removed = 1
    /\ \E code \in DOMAIN communities :
          /\ code = response.code
          /\ Len(MembersOf(code)) = 2
          /\ MembersOf(code)[2].snapshot.total_artists = 1
          /\ MembersOf(code)[1].snapshot.total_artists = 0

\* C10 (as claimed): a successful create never returns a code that already
\* names a community, so every community that existed before the call is
\* still there with its name and members.
C10_CreateKeepsCommunities ==
    [][(response'.op = "create" /\ response'.status = 200)
          => /\ response'.code \notin DOMAIN communities
             /\ \A code \in DOMAIN communities :
                    /\ code \in DOMAIN communities'
                    /\ comm_objs'[communities'[code]].name
                           = comm_objs[communities[code]].name
                    /\ MembersOf(code)' = MembersOf(code)
      ]_vars

\* C4: for every existing community, the total_artists of the group passport
\* that community_get returns is the sum of total_artists over the snapshots
\* of the members currently in it: one per id that joined since it was
\* created, each with the snapshot of its last join.
C4_TotalIsSumOverCurrentMembers ==
    /\ \A code \in DOMAIN communities :
          GroupPassport(MembersOf(code)).total_artists
              = SumOver([id \in DOMAIN joined[code] |-> joined[code][id].total_artists],
                        DOMAIN joined[code])
    /\ (response.op = "get" /\ response.status = 200)
          => response.group_passport.total_artists
              = SumOver([id \in DOMAIN joined[response.code]
                            |-> joined[response.code][id].total_artists],
                        DOMAIN joined[response.code])

\* community_get has just returned a total to which two members contribute
C4_Witness ==
    /\ response.op = "get" /\ response.status = 200
    /\ Len(response.members) = 2
    /\ \A i \in 1..2 : response.members[i].total_artists = 1
    /\ response.group_passport.total_artists = 2

-----------------------------------------------------------------------------
(* community_get as a function of the member list: the stored member lists  *)
(* are drawn from samples whose snapshots name several countries            *)

MaxGroup == 3        \* longest sampled member list

SampleCounts ==
    { EmptyDict,
      "Canada" :> 2,
      "Canada" :> 1 @@ "Unknown" :> 1,
      "United States" :> 1 @@ "Japan" :> 2,
      "Puerto Rico" :> 1,
      "Unknown" :> 3 }

\* a snapshot as passport.py:223-231 packages one
SnapshotOf(country_counts) ==
    [total_artists |-> SumOver(country_counts, DOMAIN country_counts),
     country_counts |-> country_counts,
     region_percentages |-> rollup_regions(country_counts)]

RECURSIVE SampleMemberLists(_)
SampleMemberLists(n) ==
    IF n = 0 THEN {<<>>}
    ELSE SampleMemberLists(n - 1) \cup
         {Append(ms, [spotify_id |-> n, display_name |-> DisplayNameOf[n],
                      snapshot |-> SnapshotOf(cc)]) :
              ms \in {t \in SampleMemberLists(n - 1) : Len(t) = n - 1},
              cc \in SampleCounts}

InitAggregate ==
    \E members \in SampleMemberLists(MaxGroup) :
        /\ communities = ("AB12CD" :> 1)
        /\ comm_objs = (1 :> [name |-> "Class A", members |-> 1])
        /\ list_objs = (1 :> members)
        /\ joined = ("AB12CD" :> [id \in DOMAIN members |-> members[id].snapshot])
        /\ response = NoResponse
        /\ req = [w \in Workers |-> IdleReq]
        /\ MB_COUNTRY_CACHE = EmptyDict
        /\ USE_MB = FALSE
        /\ mb_requests = [n \in ArtistNames |-> 0]
        /\ res = [w \in Workers |-> IdleRes]
    /\ calls = 0
    /\ since_mb = MaxElapsed

SpecAggregate == InitAggregate /\ [][Get]_vars

\* the count of country c in one member's snapshot, 0 when it has none
CountOf(member, c) ==
    IF c \in DOMAIN member.snapshot.country_counts
    THEN member.snapshot.country_counts[c] ELSE 0

\* C5: community_get returns country_counts equal to the per-country sum of
\* the current members' country_counts, and region shares from one rollup of
\* those merged counts: each region's share is the merged count of the
\* countries of that region over the merged total.  Members {Canada:2} and
\* {Canada:1, Unknown:1} give {Canada:3, Unknown:1}, North America 3/4 and
\* Unknown 1/4.
C5_MergedCountsRolledUpOnce ==
    (response.op = "get" /\ response.status = 200) =>
        LET members   == MembersOf(response.code)
            idx       == DOMAIN members
            gp        == response.group_passport
            countries == UNION {DOMAIN members[i].snapshot.country_counts : i \in idx}
            merged(c) == SumOver([i \in idx |-> CountOf(members[i], c)], idx)
            total     == SumOver([c \in countries |-> merged(c)], countries)
            regions   == {RegionOrUnknown(c) : c \in countries}
            inRegion(r) == {c \in countries : RegionOrUnknown(c) = r}
        IN  /\ DOMAIN gp.country_counts = countries
            /\ \A c \in countries : gp.country_counts[c] = merged(c)
            /\ DOMAIN gp.region_percentages = IF total = 0 THEN {} ELSE regions
            /\ \A r \in DOMAIN gp.region_percentages :
                    /\ gp.region_percentages[r][2] > 0
                    /\ gp.region_percentages[r][1] * total
                         = gp.region_percentages[r][2]
                             * SumOver([c \in inRegion(r) |-> merged(c)], inRegion(r))
            /\ ( /\ Len(members) = 2
                 /\ members[1].snapshot.country_counts = ("Canada" :> 2)
                 /\ members[2].snapshot.country_counts
                        = ("Canada" :> 1 @@ "Unknown" :> 1) )
               => /\ gp.country_counts = ("Canada" :> 3 @@ "Unknown" :> 1)
                  /\ gp.region_percentages
                        = ("North America" :> <<3, 4>> @@ "Unknown" :> <<1, 4>>)

\* community_get has just returned the group passport of the two example members
C5_Witness ==
    /\ response.op = "get" /\ response.status = 200
    /\ Len(response.members) = 2
    /\ response.group_passport.country_counts = ("Canada" :> 3 @@ "Unknown" :> 1)
    /\ response.group_passport.region_percentages["North America"] = <<3, 4>>

-----------------------------------------------------------------------------
(* community_join on concurrent workers.  FastAPI runs a "def" endpoint in a *)
(* thread pool; the handler takes no lock, so another request can run        *)
(* between any two of its accesses to the shared dicts and lists.            *)

\* the heaps after a step, without the objects nothing refers to any more
Collect(cm, co, lo, rq) ==
    /\ comm_objs' = Restrict(co, LiveComms(cm, rq))
    /\ list_objs' = Restrict(lo, LiveLists(cm, co, rq))

\* community.py:106-114: load the community dict, ask Spotify who the caller
\* is and what they listen to (neither touches the store)
JoinBegin(w, code, who, data) ==
    /\ req[w].pc = "idle"
    /\ calls < MaxCalls
    /\ calls' = calls + 1
    /\ IF code \notin DOMAIN communities
       THEN /\ response' = [op |-> "join", status |-> 404, code |-> code]
            /\ UNCHANGED req
       ELSE IF who.id = NoId
       THEN /\ response' = [op |-> "join", status |-> 400, code |-> code]
            /\ UNCHANGED req
       ELSE /\ req' = [req EXCEPT ![w] =
                          [IdleReq EXCEPT !.pc = "read", !.code = code, !.who = who,
                                          !.snap = snapshot_from_top_artists(data),
                                          !.comm = communities[code]]]
            /\ UNCHANGED response
    /\ UNCHANGED <<communities, comm_objs, list_objs, joined,
                   MB_COUNTRY_CACHE, USE_MB, mb_requests, res, since_mb>>

\* community.py:117  existing = comm["members"]
JoinRead(w) ==
    /\ req[w].pc = "read"
    /\ req' = [req EXCEPT ![w].pc = "assign",
                          ![w].existing = comm_objs[req[w].comm].members]
    /\ UNCHANGED <<communities, comm_objs, list_objs, response, joined, resolverVars>>

\* community.py:119  comm["members"] = [m for m in existing if ...]
\* (the name "existing" is not read again, so its reference is dropped here)
JoinAssign(w) ==
    /\ req[w].pc = "assign"
    /\ LET existing == list_objs[req[w].existing]
           filtered == WithoutMember(existing, req[w].who.id)
           rq  == [req EXCEPT ![w].pc = "load", ![w].existing = NoRef,
                              ![w].removed = Len(existing) - Len(filtered)]
           co  == [comm_objs EXCEPT ![req[w].comm].members = NoRef]
           lid == Fresh(LiveLists(communities, co, rq))
       IN  /\ req' = rq
           /\ Collect(communities,
                      [comm_objs EXCEPT ![req[w].comm].members = lid],
                      (lid :> filtered) @@ list_objs, rq)
    /\ UNCHANGED <<communities, response, joined, resolverVars>>

\* community.py:121  the list that comm["members"] names now
JoinLoad(w) ==
    /\ req[w].pc = "load"
    /\ req' = [req EXCEPT ![w].pc = "append",
                          ![w].target = comm_objs[req[w].comm].members]
    /\ UNCHANGED <<communities, comm_objs, list_objs, response, joined, resolverVars>>

\* community.py:121-125  .append({...}) on that list
JoinAppend(w) ==
    /\ req[w].pc = "append"
    /\ list_objs' = [list_objs EXCEPT ![req[w].target] =
                        Append(@, NewMember(req[w].who, req[w].snap))]
    /\ req' = [req EXCEPT ![w].pc = "return"]
    /\ UNCHANGED <<communities, comm_objs, response, joined, resolverVars>>

\* community.py:127  return {..., "members": len(comm["members"])}
JoinReturn(w) ==
    /\ req[w].pc = "return"
    /\ response' = [op |-> "join", status |-> 200, code |-> req[w].code,
                    members |-> Len(list_objs[comm_objs[req[w].comm].members]),
                    removed |-> req[w].removed]
    /\ joined' = IF req[w].code \in DOMAIN communities
                    /\ communities[req[w].code] = req[w].comm
                 THEN [joined EXCEPT ![req[w].code] =
                          (req[w].who.id :> req[w].snap) @@ @]
                 ELSE joined
    /\ LET rq == [req EXCEPT ![w] = IdleReq]
       IN  /\ req' = rq
           /\ Collect(communities, comm_objs, list_objs, rq)
    /\ UNCHANGED <<communities, resolverVars>>

JoinStep ==
    \E w \in Workers :
        \/ \E code \in Codes, who \in MeData, data \in TopArtistsData :
               JoinBegin(w, code, who, data)
        \/ JoinRead(w)
        \/ JoinAssign(w)
        \/ JoinLoad(w)
        \/ JoinAppend(w)
        \/ JoinReturn(w)

\* community_create touches the store in one access (line 97)
CreateCall ==
    /\ calls < MaxCalls
    /\ calls' = calls + 1
    /\ \E name \in DOMAIN NameLength, code \in Codes :
           /\ community_create(name, code)
           /\ joined' = JoinedAfterCreate(code, response')
    /\ UNCHANGED <<req, MB_COUNTRY_CACHE, USE_MB, mb_requests, res, since_mb>>

\* community_get on a concurrent worker: it reads comm["members"] twice, for
\* the loop of line 138 and for the comprehension of line 154.

\* community.py:131-133
GetBegin(w, code) ==
    /\ req[w].pc = "idle"
    /\ calls < MaxCalls
    /\ calls' = calls + 1
    /\ IF code \notin DOMAIN communities
       THEN /\ response' = [op |-> "get", status |-> 404, code |-> code]
            /\ UNCHANGED req
       ELSE /\ req' = [req EXCEPT ![w] =
                          [IdleReq EXCEPT !.pc = "get_members", !.code = code,
                                          !.comm = communities[code],
                                          !.known = IF code \in DOMAIN joined
                                                    THEN DOMAIN joined[code]
                                                    ELSE {}]]
            /\ UNCHANGED response
    /\ UNCHANGED <<communities, comm_objs, list_objs, joined,
                   MB_COUNTRY_CACHE, USE_MB, mb_requests, res, since_mb>>

\* community.py:138  comm["members"] is evaluated: the list the loop runs over
GetMembers(w) ==
    /\ req[w].pc = "get_members"
    /\ req' = [req EXCEPT ![w].pc = "get_loop",
                          ![w].existing = comm_objs[req[w].comm].members]
    /\ UNCHANGED <<communities, comm_objs, list_objs, response, joined, resolverVars>>

\* community.py:138-144  the loop comes to the end of that list (an entry
\* appended to it meanwhile is met) and the regions are rolled up; the
\* locals total_artists, agg_countries and regions are kept in "snap"
GetLoop(w) ==
    /\ req[w].pc = "get_loop"
    /\ LET rq == [req EXCEPT ![w].pc = "get_list", ![w].existing = NoRef,
                             ![w].snap = GroupPassport(list_objs[req[w].existing])]
       IN  /\ req' = rq
           /\ Collect(communities, comm_objs, list_objs, rq)
    /\ UNCHANGED <<communities, response, joined, resolverVars>>

\* community.py:154  comm["members"] is evaluated again
GetMembersAgain(w) ==
    /\ req[w].pc = "get_list"
    /\ req' = [req EXCEPT ![w].pc = "get_return",
                          ![w].existing = comm_objs[req[w].comm].members]
    /\ UNCHANGED <<communities, comm_objs, list_objs, response, joined, resolverVars>>

\* community.py:145-161  the comprehension comes to the end of that list and
\* the handler returns
GetReturn(w) ==
    /\ req[w].pc = "get_return"
    /\ response' = [op |-> "get", status |-> 200, code |-> req[w].code,
                    name |-> comm_objs[req[w].comm].name,
                    members |-> MemberSummaries(list_objs[req[w].existing]),
                    group_passport |-> req[w].snap]
    /\ LET rq == [req EXCEPT ![w] = IdleReq]
       IN  /\ req' = rq
           /\ Collect(communities, comm_objs, list_objs, rq)
    /\ UNCHANGED <<communities, joined, resolverVars>>

GetStep ==
    \E w \in Workers :
        \/ \E code \in Codes : GetBegin(w, code)
        \/ GetMembers(w)
        \/ GetLoop(w)
        \/ GetMembersAgain(w)
        \/ GetReturn(w)

NextConcurrent == CreateCall \/ GetStep \/ JoinStep

SpecConcurrent == Init /\ [][NextConcurrent]_vars

\* C2 (as claimed): while community_join requests for one community and one
\* id overlap, interleaved at "read members", "assign the filtered list" and
\* "append the new member", no state has that id twice in the member list.
C2_NoDuplicateWhenJoinsOverlap ==
    \A code \in DOMAIN communities :
        \A id \in SpotifyIds :
            Cardinality(Positions(MembersOf(code), id)) <= 1

-----------------------------------------------------------------------------
(* The resolver, one call at a time *)

InitResolver ==
    /\ communities = EmptyDict
    /\ comm_objs = EmptyDict
    /\ list_objs = EmptyDict
    /\ response = NoResponse
    /\ joined = EmptyDict
    /\ req = [w \in Workers |-> IdleReq]
    /\ MB_COUNTRY_CACHE = EmptyDict
    /\ USE_MB \in BOOLEAN       \* PASSPORT_USE_MB as the process found it
    /\ mb_requests = [n \in ArtistNames |-> 0]
    /\ res = [w \in Workers |-> IdleRes]
    /\ calls = 0
    /\ since_mb = MaxElapsed

\* one more requests.get for the name; counts above MaxLookups are not told apart
Requested(counts, artist_name) ==
    [counts EXCEPT ![artist_name] = IF @ < MaxLookups THEN @ + 1 ELSE @]

\* one whole infer_country_fast call as a step
ResolveCall(artist_name, mb) ==
    LET r == infer_country_fast(artist_name, USE_MB, MB_COUNTRY_CACHE, mb)
    IN  /\ MB_COUNTRY_CACHE' = r.cache
        /\ mb_requests' = IF r.requested THEN Requested(mb_requests, artist_name)
                          ELSE mb_requests
        /\ since_mb' = IF r.requested THEN 0 ELSE since_mb
        /\ response' = [op |-> "resolve", name |-> artist_name, raised |-> r.raised,
                        country |-> r.ret, tier |-> r.tier,
                        mb |-> IF r.requested THEN mb ELSE NoMb]
        /\ UNCHANGED <<communities, comm_objs, list_objs, joined, req, USE_MB, res,
                       calls>>

Resolve == \E artist_name \in ArtistNames, mb \in MbResponses :
               ResolveCall(artist_name, mb)

\* time passes between two calls; nothing in passport.py waits for it
Elapse ==
    /\ since_mb < MaxElapsed
    /\ since_mb' = since_mb + 1
    /\ UNCHANGED <<storeVars, response, joined, MB_COUNTRY_CACHE, USE_MB,
                   mb_requests, res, calls>>

NextResolver == Resolve \/ Elapse

SpecResolver == InitResolver /\ [][NextResolver]_vars

\* C6: with the lookup enabled, a call for a name outside the seed table that
\* directly follows a call for the same name makes no MusicBrainz request,
\* whatever the first call came to.
C6_SecondCallMakesNoRequest ==
    [][\A artist_name \in ArtistNames, mb \in MbResponses :
          ( /\ USE_MB
            /\ artist_name \notin DOMAIN QUICK_COUNTRY_SEEDS
            /\ response.op = "resolve" /\ response.name = artist_name
            /\ ResolveCall(artist_name, mb) )
          => /\ mb_requests'[artist_name] = mb_requests[artist_name]
             /\ response'.mb = NoMb
             /\ response'.tier = "cache"
      ]_vars

\* a second call has been answered from the cache after the first one failed
C6_Witness ==
    /\ USE_MB
    /\ response.op = "resolve" /\ response.tier = "cache"
    /\ response.name = "Stromae"
    /\ MB_COUNTRY_CACHE["Stromae"] = None
    /\ mb_requests["Stromae"] = 1

\* a candidate that names a country, an area or a begin-area
Usable(a) ==
    \/ a.country \notin {Absent, None, ""}
    \/ a.area \notin {Absent, None, ""}
    \/ a.begin_area \notin {Absent, None, ""}

\* C8: infer_country_fast never raises and returns a country identifier for
\* every name; when the request raised (error, timeout, non-2xx status,
\* malformed body) or brought no usable candidate, it returns "Unknown".
C8_NeverRaisesWorstCaseUnknown ==
    response.op = "resolve" =>
        /\ ~response.raised
        /\ response.country \notin {None, "", Absent}
        /\ (response.tier = "external" /\
            ( \/ response.mb.kind = "raise"
              \/ response.mb.artists = <<>>
              \/ ~Usable(response.mb.artists[1]) ))
              => response.country = "Unknown"
        /\ (response.tier = "disabled") => response.country = "Unknown"

\* a request has just failed with a non-2xx status and the call returned "Unknown"
C8_Witness ==
    /\ response.op = "resolve" /\ response.tier = "external"
    /\ response.mb.kind = "raise" /\ response.mb.exc = "HTTPError"
    /\ response.country = "Unknown"

\* C9: the tiers are tried in order and the first hit wins.  A seeded name
\* gets its seed country and the call neither touches the cache nor makes a
\* request; otherwise a cached name, a cached negative result included, gets
\* the cached outcome without a request; only a name in neither table
\* reaches the external lookup.
C9_TierPrecedence ==
    [][\A artist_name \in ArtistNames, mb \in MbResponses :
          ResolveCall(artist_name, mb) =>
            /\ artist_name \in DOMAIN QUICK_COUNTRY_SEEDS
                  => /\ response'.country = QUICK_COUNTRY_SEEDS[artist_name]
                     /\ response'.tier = "seed"
                     /\ MB_COUNTRY_CACHE' = MB_COUNTRY_CACHE
                     /\ mb_requests' = mb_requests
            /\ ( /\ artist_name \notin DOMAIN QUICK_COUNTRY_SEEDS
                 /\ artist_name \in DOMAIN MB_COUNTRY_CACHE )
                  => /\ response'.country
                          = IF MB_COUNTRY_CACHE[artist_name] \in {None, ""}
                            THEN "Unknown" ELSE MB_COUNTRY_CACHE[artist_name]
                     /\ response'.tier = "cache"
                     /\ MB_COUNTRY_CACHE' = MB_COUNTRY_CACHE
                     /\ mb_requests' = mb_requests
            /\ (response'.tier = "external" \/ mb_requests' # mb_requests)
                  => /\ artist_name \notin DOMAIN QUICK_COUNTRY_SEEDS
                     /\ artist_name \notin DOMAIN MB_COUNTRY_CACHE
      ]_vars

\* a seeded name has been answered from the seed table while the cache holds
\* a country for one name and a negative result for another
C9_Witness ==
    /\ USE_MB
    /\ response.op = "resolve" /\ response.tier = "seed" /\ response.name = "Drake"
    /\ response.country = "Canada"
    /\ DOMAIN MB_COUNTRY_CACHE = {"Stromae", "UnknownArtist"}
    /\ MB_COUNTRY_CACHE["Stromae"] = "BE"
    /\ MB_COUNTRY_CACHE["UnknownArtist"] = None

-----------------------------------------------------------------------------
(* The resolver on concurrent workers: nothing guards MB_COUNTRY_CACHE, and  *)
(* the request of line 113 blocks for up to three seconds                    *)

\* passport.py:135-136 and 104-107: the seed table, the switch and the cache
\* are consulted; a miss goes on to the request
LookupBegin(w, artist_name) ==
    /\ res[w].pc = "idle"
    /\ calls < MaxCalls
    /\ calls' = calls + 1
    /\ LET r == infer_country_fast(artist_name, USE_MB, MB_COUNTRY_CACHE, NoMb)
       IN  IF r.requested
           THEN /\ res' = [res EXCEPT ![w] = [pc |-> "request", name |-> artist_name]]
                /\ UNCHANGED response
           ELSE /\ response' = [op |-> "resolve", name |-> artist_name,
                                raised |-> r.raised, country |-> r.ret,
                                tier |-> r.tier, mb |-> NoMb]
                /\ UNCHANGED res
    /\ UNCHANGED <<storeVars, joined, MB_COUNTRY_CACHE, USE_MB, mb_requests, since_mb>>

\* passport.py:113  requests.get is called
LookupRequest(w) ==
    /\ res[w].pc = "request"
    /\ mb_requests' = Requested(mb_requests, res[w].name)
    /\ since_mb' = 0
    /\ res' = [res EXCEPT ![w].pc = "respond"]
    /\ UNCHANGED <<storeVars, joined, response, MB_COUNTRY_CACHE, USE_MB, calls>>

\* passport.py:113-131 and 138: the request comes back, the outcome is
\* written to the cache as it is now, and the call returns
LookupFinish(w, mb) ==
    /\ res[w].pc = "respond"
    /\ LET r == AfterLookup(res[w].name, MB_COUNTRY_CACHE, TryBody(mb))
       IN  /\ MB_COUNTRY_CACHE' = r.cache
           /\ response' = [op |-> "resolve", name |-> res[w].name,
                           raised |-> r.raised,
                           country |-> IF r.raised THEN None ELSE OrUnknown(r.ret),
                           tier |-> "external", mb |-> mb]
    /\ res' = [res EXCEPT ![w] = IdleRes]
    /\ UNCHANGED <<storeVars, joined, USE_MB, mb_requests, calls, since_mb>>

NextResolverConcurrent ==
    \E w \in Workers :
        \/ \E artist_name \in ArtistNames : LookupBegin(w, artist_name)
        \/ LookupRequest(w)
        \/ \E mb \in MbResponses : LookupFinish(w, mb)

SpecResolverConcurrent == InitResolver /\ [][NextResolverConcurrent]_vars

\* C7 (as claimed): with the lookup enabled and several requests resolving
\* names at once, no artist name is ever requested from MusicBrainz more than
\* once in the whole run.
C7_AtMostOneRequestPerName ==
    USE_MB => \A artist_name \in ArtistNames : mb_requests[artist_name] <= 1

-----------------------------------------------------------------------------
(* passport.py: the two live snapshot routes *)

MaxTop == 3         \* artists of a /me/top/artists page
MaxRecent == 13     \* single-artist tracks of a recently-played page

\* passport.py:259  names = names[:12]
RecentCap == 12

NoName == ""        \* a.get("name") of an artist that has no name, or an empty one

Range(s) == {s[i] : i \in DOMAIN s}

SeqsUpTo(S, n) == UNION {[1..k -> S] : k \in 0..n}

\* What spotify_get("/me/top/artists") can hand back: not a dict / no "items"
\* (ok = FALSE), or the names of the artists of the page, in order.
TopNames == {"Drake", "UnknownArtist", NoName}

TopData ==
    {[ok |-> FALSE, names |-> <<>>]} \cup
    {[ok |-> TRUE, names |-> s] : s \in SeqsUpTo(TopNames, MaxTop)}

\* fifteen distinct names, two of them ("Stromae", "UnknownArtist") not seeded
RecentNames ==
    <<"Stromae", "Drake", "UnknownArtist", "Bad Bunny", "Taylor Swift", "Adele",
      "BTS", "BLACKPINK", "Daft Punk", "Arctic Monkeys", "The Beatles",
      "Kendrick Lamar", "YOASOBI", "IU", "Rammstein">>

\* What spotify_get("/me/player/recently-played") can hand back: not a dict
\* (ok = FALSE), or items; an item is the list of the names of its track's
\* artists, empty for an item that is None or has no track or no artists.
\* The samples are k tracks by k different artists after a track that
\* repeats names and holds a nameless artist (or after an item without
\* track); the longest pages may end with a track that repeats the first
\* name and brings one more.
RecentHeads ==
    {<<>>,
     << <<RecentNames[2], NoName, RecentNames[1], RecentNames[2]>> >>,
     << <<>>, <<RecentNames[3], RecentNames[3]>> >>}

RecentData ==
    {[ok |-> FALSE, items |-> <<>>]} \cup
    {[ok |-> TRUE, items |-> head \o [i \in 1..k |-> <<RecentNames[i]>>]] :
         head \in RecentHeads, k \in 0..MaxRecent} \cup
    {[ok |-> TRUE,
      items |-> head \o [i \in 1..MaxRecent |-> <<RecentNames[i]>>]
                     \o << <<RecentNames[1], RecentNames[MaxRecent + 1]>> >>] :
         head \in RecentHeads}

\* the responses MusicBrainz gives in the snapshot routes: a timeout, a body
\* without candidate, a candidate with a country code
MbSample ==
    {[kind |-> "raise", exc |-> "Timeout", artists |-> <<>>],
     [kind |-> "body", exc |-> None, artists |-> <<>>],
     [kind |-> "body", exc |-> None,
      artists |-> <<[country |-> "BE", area |-> Absent, begin_area |-> Absent]>>]}

\* what the request for a name comes to within one route call
MbFor(mbOf, name) == IF name \in DOMAIN mbOf THEN mbOf[name] ELSE NoMb

\* country_counts[country] = country_counts.get(country, 0) + 1
Incr(country_counts, country) ==
    (country :> (IF country \in DOMAIN country_counts
                 THEN country_counts[country] ELSE 0) + 1) @@ country_counts

\* the locals of a route before its counting loop
LoopStart(cache, requests, since) ==
    [cache |-> cache, mb_requests |-> requests, since_mb |-> since,
     country_counts |-> EmptyDict,
     total_artists |-> 0, resolved |-> <<>>, raised |-> FALSE]

\* one infer_country_fast call and the count of its answer (passport.py:220-221,
\* 263-264); "resolved" lists the names handed to the resolver
CountOne(acc, name, use_mb, mbOf) ==
    LET r == infer_country_fast(name, use_mb, acc.cache, MbFor(mbOf, name))
    IN  [cache |-> r.cache,
         mb_requests |-> IF r.requested THEN Requested(acc.mb_requests, name)
                         ELSE acc.mb_requests,
         since_mb |-> IF r.requested THEN 0 ELSE acc.since_mb,
         country_counts |-> IF r.raised THEN acc.country_counts
                            ELSE Incr(acc.country_counts, r.ret),
         total_artists |-> acc.total_artists,
         resolved |-> Append(acc.resolved, name),
         raised |-> r.raised]

\* faulty variant: total_artists is raised before the nameless artist is skipped
RECURSIVE TopLoop_CountsNameless(_, _, _, _, _)
TopLoop_CountsNameless(names, i, use_mb, mbOf, acc) ==
    IF i > Len(names) \/ acc.raised THEN acc
    ELSE IF names[i] = NoName
    THEN TopLoop_CountsNameless(names, i + 1, use_mb, mbOf,
                                [acc EXCEPT !.total_artists = @ + 1])
    ELSE TopLoop_CountsNameless(names, i + 1, use_mb, mbOf,
                 CountOne([acc EXCEPT !.total_artists = @ + 1], names[i], use_mb, mbOf))

\* faulty variant: a name that was counted before is skipped, as the
\* recently-played route does
RECURSIVE TopLoop_SkipsRepeats(_, _, _, _, _)
TopLoop_SkipsRepeats(names, i, use_mb, mbOf, acc) ==
    IF i > Len(names) \/ acc.raised THEN acc
    ELSE IF names[i] = NoName \/ names[i] \in Range(acc.resolved)
    THEN TopLoop_SkipsRepeats(names, i + 1, use_mb, mbOf, acc)
    ELSE TopLoop_SkipsRepeats(names, i + 1, use_mb, mbOf,
                 CountOne([acc EXCEPT !.total_artists = @ + 1], names[i], use_mb, mbOf))

\* passport.py:215-221 from item i on
RECURSIVE TopLoop(_, _, _, _, _)
TopLoop(names, i, use_mb, mbOf, acc) ==
    IF i > Len(names) \/ acc.raised THEN acc
    ELSE IF names[i] = NoName THEN TopLoop(names, i + 1, use_mb, mbOf, acc)
    ELSE TopLoop(names, i + 1, use_mb, mbOf,
                 CountOne([acc EXCEPT !.total_artists = @ + 1], names[i], use_mb, mbOf))

\* passport.py:252-256 from artist j of a track on
RECURSIVE ArtistLoop(_, _, _)
ArtistLoop(artists, j, acc) ==
    IF j > Len(artists) THEN acc
    ELSE LET nm == artists[j]
         IN  ArtistLoop(artists, j + 1,
                        IF nm # NoName /\ nm \notin acc.seen
                        THEN [names |-> Append(acc.names, nm),
                              seen |-> acc.seen \cup {nm}]
                        ELSE acc)

\* passport.py:249-256 from item i on
RECURSIVE ItemLoop(_, _, _)
ItemLoop(items, i, acc) ==
    IF i > Len(items) THEN acc
    ELSE ItemLoop(items, i + 1, ArtistLoop(items[i], 1, acc))

\* faulty variant: every name is kept, the cap is not applied
CapNames_Uncapped(names) == names

\* passport.py:259  names[:12]
CapNames(names) ==
    SubSeq(names, 1, IF Len(names) < RecentCap THEN Len(names) ELSE RecentCap)

\* passport.py:246-259  the names the recently-played route resolves
RecentNamesOf(data) ==
    CapNames(ItemLoop(IF data.ok THEN data.items ELSE <<>>, 1,
                      [names |-> <<>>, seen |-> {}]).names)

\* passport.py:262-264 from name i on
RECURSIVE RecentLoop(_, _, _, _, _)
RecentLoop(names, i, use_mb, mbOf, acc) ==
    IF i > Len(names) \/ acc.raised THEN acc
    ELSE RecentLoop(names, i + 1, use_mb, mbOf, CountOne(acc, names[i], use_mb, mbOf))

\* the names a route call asks MusicBrainz about
Lookups(names) ==
    IF USE_MB
    THEN {n \in Range(names) : /\ n # NoName
                               /\ n \notin DOMAIN QUICK_COUNTRY_SEEDS
                               /\ n \notin DOMAIN MB_COUNTRY_CACHE}
    ELSE {}

\* passport.py:200-232 as one step
passport_from_token(data, mbOf) ==
    IF ~data.ok
    THEN /\ response' = [op |-> "top", status |-> 400, input |-> data]
         /\ UNCHANGED <<MB_COUNTRY_CACHE, mb_requests, since_mb>>
    ELSE LET acc == TopLoop(data.names, 1, USE_MB, mbOf,
                            LoopStart(MB_COUNTRY_CACHE, mb_requests, since_mb))
         IN  /\ MB_COUNTRY_CACHE' = acc.cache
             /\ mb_requests' = acc.mb_requests
             /\ since_mb' = acc.since_mb
             /\ response' =
                  IF acc.raised
                  THEN [op |-> "top", status |-> 500, input |-> data]
                  ELSE [op |-> "top", status |-> 200, input |-> data,
                        country_counts |-> acc.country_counts,
                        region_percentages |-> rollup_regions(acc.country_counts),
                        total_artists |-> acc.total_artists,
                        resolved |-> acc.resolved]

\* passport.py:234-275 as one step
passport_from_token_recent(data, mbOf) ==
    LET names == RecentNamesOf(data)
        acc == RecentLoop(names, 1, USE_MB, mbOf,
                          LoopStart(MB_COUNTRY_CACHE, mb_requests, since_mb))
    IN  /\ MB_COUNTRY_CACHE' = acc.cache
        /\ mb_requests' = acc.mb_requests
        /\ since_mb' = acc.since_mb
        /\ response' =
             IF acc.raised
             THEN [op |-> "recent", status |-> 500, input |-> data]
             ELSE [op |-> "recent", status |-> 200, input |-> data,
                   country_counts |-> acc.country_counts,
                   region_percentages |-> rollup_regions(acc.country_counts),
                   total_artists |-> Len(names),
                   resolved |-> acc.resolved]

PassportTop ==
    /\ \E data \in TopData :
           \E mbOf \in [Lookups(data.names) -> MbSample] : passport_from_token(data, mbOf)
    /\ UNCHANGED <<communities, comm_objs, list_objs, joined, req, USE_MB, res, calls>>

PassportRecent ==
    /\ \E data \in RecentData :
           \E mbOf \in [Lookups(RecentNamesOf(data)) -> MbSample] :
               passport_from_token_recent(data, mbOf)
    /\ UNCHANGED <<communities, comm_objs, list_objs, joined, req, USE_MB, res, calls>>

\* community.py:114  the snapshot a join stores, as one step
MemberSnapshot ==
    /\ \E data \in TopArtistsData :
           LET snap == snapshot_from_top_artists(data)
           IN  response' = [op |-> "snapshot", status |-> 200, input |-> data,
                            country_counts |-> snap.country_counts,
                            region_percentages |-> snap.region_percentages,
                            total_artists |-> snap.total_artists]
    /\ UNCHANGED <<storeVars, joined, resolverVars>>

\* community.py:134-151  the group passport of a member list, as one step
GroupOf ==
    /\ \E members \in SampleMemberLists(NumUsers) :
           response' = [op |-> "group", status |-> 200, members |-> members,
                        group_passport |-> GroupPassport(members)]
    /\ UNCHANGED <<storeVars, joined, resolverVars>>

NextPassport == PassportTop \/ PassportRecent \/ MemberSnapshot \/ GroupOf

SpecPassport == InitResolver /\ [][NextPassport]_vars

-----------------------------------------------------------------------------
(* Properties of the snapshots (SpecPassport) *)

SumsToTotal(snap) ==
    SumOver(snap.country_counts, DOMAIN snap.country_counts) = snap.total_artists

\* C11: in every snapshot that is produced (from top artists, from recently
\* played tracks, the snapshot a community member is stored with, and the
\* group passport of members whose snapshots have the property) the counts of
\* country_counts add up to total_artists.
C11_CountsSumToTotal ==
    /\ (response.op \in {"top", "recent", "snapshot"} /\ response.status = 200)
          => SumsToTotal(response)
    /\ response.op = "group"
          => ((\A i \in DOMAIN response.members :
                   SumsToTotal(response.members[i].snapshot))
                => SumsToTotal(response.group_passport))

\* a capped recently-played snapshot over several countries, lookups included
C11_Witness ==
    /\ response.op = "recent"
    /\ response.status = 200
    /\ response.total_artists = RecentCap
    /\ {"BE", "Unknown", "Canada"} \subseteq DOMAIN response.country_counts

-----------------------------------------------------------------------------
(* rollup_regions on its own *)

MaxCount == 2       \* the highest count of one country

RollupCountries == {"Canada", "United States", "Japan", "Puerto Rico", "Unknown"}

\* the maps of counts over the sample countries whose counts are lo or more
CountMaps(lo) == UNION {[S -> lo..MaxCount] : S \in SUBSET RollupCountries}

\* community.py:24-30  the rollup community.py defines for itself when
\* importing passport.py fails
rollup_regions_fallback(country_counts) ==
    LET total == SumOver(country_counts, DOMAIN country_counts)
    IN  IF total > 0 THEN "Unknown" :> <<1, 1>> ELSE EmptyDict

InitRollupFrom(inputs) ==
    /\ communities = EmptyDict
    /\ comm_objs = EmptyDict
    /\ list_objs = EmptyDict
    /\ response \in {[op |-> "counts", status |-> 0, country_counts |-> cc] :
                        cc \in inputs}
    /\ joined = EmptyDict
    /\ req = [w \in Workers |-> IdleReq]
    /\ MB_COUNTRY_CACHE = EmptyDict
    /\ USE_MB = FALSE
    /\ mb_requests = [n \in ArtistNames |-> 0]
    /\ res = [w \in Workers |-> IdleRes]
    /\ calls = 0
    /\ since_mb = MaxElapsed

\* rollup_regions applied to the counts, by either of its two definitions
Rollup ==
    /\ response.op = "counts"
    /\ \E impl \in {"passport", "fallback"} :
           response' = [op |-> "rollup", status |-> 200, impl |-> impl,
                        country_counts |-> response.country_counts,
                        region_percentages |->
                            IF impl = "passport"
                            THEN rollup_regions(response.country_counts)
                            ELSE rollup_regions_fallback(response.country_counts)]
    /\ UNCHANGED <<storeVars, joined, resolverVars>>

\* the maps the routes build: a country is a key once it has been counted
InitRollup == InitRollupFrom(CountMaps(1))

SpecRollup == InitRollup /\ [][Rollup]_vars

\* every map of counts, keys whose count is zero included
InitRollupAny == InitRollupFrom(CountMaps(0))

NextRollupAny == Rollup \/ GroupOf

SpecRollupAny == InitRollupAny /\ [][NextRollupAny]_vars

AllZero(country_counts) == \A c \in DOMAIN country_counts : country_counts[c] = 0

\* C13: for an empty country_counts and for one whose counts are all zero
\* rollup_regions returns the empty map, not 100% Unknown; so the group
\* passport of no members, or of members whose snapshots are all empty, has
\* empty region_percentages.
C13_ZeroTotalGivesEmptyMap ==
    /\ (response.op = "rollup" /\ AllZero(response.country_counts))
          => response.region_percentages = EmptyDict
    /\ (response.op = "group" /\ \A i \in DOMAIN response.members :
                                     AllZero(response.members[i].snapshot.country_counts))
          => response.group_passport.region_percentages = EmptyDict

\* a map with keys and no counts, rolled up by passport.py
C13_Witness ==
    /\ response.op = "rollup"
    /\ response.impl = "passport"
    /\ DOMAIN response.country_counts = {"Canada", "Unknown"}
    /\ AllZero(response.country_counts)
    /\ response.region_percentages = EmptyDict

-----------------------------------------------------------------------------
(* Unknown codes (Spec) *)

\* C14: community_join and community_get with a code that is not a key of
\* communities answer 404 and leave the store (the codes, the communities and
\* their member lists) as it was.
C14_UnknownCodeIs404AndNoChange ==
    [][\A code \in Codes \ DOMAIN communities :
          /\ \A who \in MeData, data \in TopArtistsData :
                 JoinCall(code, who, data)
                    => /\ response'.status = 404
                       /\ UNCHANGED <<storeVars, joined>>
          /\ (community_get(code) /\ response'.op = "get")
                    => /\ response'.status = 404
                       /\ UNCHANGED <<storeVars, joined>>]_vars

\* a join with an unknown code has been refused while another community has
\* a member
C14_Witness ==
    /\ response.op = "join"
    /\ response.status = 404
    /\ response.code \notin DOMAIN communities
    /\ \E code \in DOMAIN communities : MembersOf(code) # <<>>

-----------------------------------------------------------------------------
(* The pace of the MusicBrainz requests (SpecResolver) *)

\* C15 (as claimed): with the lookup enabled the requests to MusicBrainz are
\* throttled: a request is issued only when at least the configured interval
\* has passed since the request before it.  Whatever the interval is, two
\* requests with no tick of the clock between them are closer than that.
C15_RequestsKeepApart ==
    [][(USE_MB /\ mb_requests' # mb_requests) => since_mb > 0]_vars

-----------------------------------------------------------------------------
(* The seed table against the region map (SpecResolver) *)

\* C16 (as claimed): every country the seed table gives is a key of
\* COUNTRY_TO_REGION, so an artist answered from the seed table is never
\* rolled up into the Unknown region.
C16_SeedCountriesHaveRegion ==
    (response.op = "resolve" /\ response.tier = "seed")
        => /\ response.country \in DOMAIN COUNTRY_TO_REGION
           /\ RegionOrUnknown(response.country) # "Unknown"

-----------------------------------------------------------------------------
(* The recently-played snapshot (SpecPassport) *)

\* the artist names of a page in the order of the page
RECURSIVE Flat(_)
Flat(items) == IF items = <<>> THEN <<>> ELSE Head(items) \o Flat(Tail(items))

\* the places of a list where a name stands for the first time
FirstSeen(flat) ==
    {i \in DOMAIN flat : flat[i] # NoName /\ \A j \in 1..(i - 1) : flat[j] # flat[i]}

\* C17: from a recently-played page the names kept are the distinct non-empty
\* artist names in first-seen order, cut to the first 12; the cut is made
\* before anything is counted, so total_artists is the number of names kept
\* (12 at most), each of them is resolved exactly once, and each adds exactly
\* 1 to country_counts.
C17_RecentKeepsFirstTwelveDistinct ==
    (response.op = "recent" /\ response.status = 200) =>
        LET flat  == Flat(response.input.items)
            first == FirstSeen(flat)
            kept  == {i \in first : Cardinality({j \in first : j < i}) < 12}
        IN  /\ Len(response.resolved) = Cardinality(kept)
            /\ \A i \in kept :
                   response.resolved[Cardinality({j \in kept : j <= i})] = flat[i]
            /\ response.total_artists = Cardinality(kept)
            /\ response.total_artists <= 12
            /\ SumOver(response.country_counts, DOMAIN response.country_counts)
                   = Cardinality(kept)

\* a page with a repeated name, a nameless artist and more than twelve names
C17_Witness ==
    /\ response.op = "recent"
    /\ response.status = 200
    /\ LET flat == Flat(response.input.items)
       IN  /\ Cardinality(FirstSeen(flat)) > 12
           /\ Cardinality(FirstSeen(flat)) < Len(flat)
           /\ NoName \in Range(flat)
    /\ Len(response.resolved) = 12
    /\ response.resolved[1] = "Drake"

-----------------------------------------------------------------------------
(* The top-artists snapshot without the lookup (SpecPassport) *)

\* the country of a name when MusicBrainz is not asked
SeedOrUnknown(name) ==
    IF name \in DOMAIN QUICK_COUNTRY_SEEDS THEN QUICK_COUNTRY_SEEDS[name]
    ELSE "Unknown"

\* C18: with the lookup disabled, every artist of the top-artists page that
\* has a non-empty name, repeated names included, adds 1 to total_artists and
\* 1 to the count of its seed country, or of "Unknown" when it is not seeded;
\* an artist without name adds nothing.  The page Drake, Drake, UnknownArtist
\* gives {Canada: 2, Unknown: 1}, total_artists 3 and the regions North
\* America 2/3 and Unknown 1/3.
C18_TopCountsEveryNamedArtist ==
    (response.op = "top" /\ response.status = 200 /\ ~USE_MB) =>
        LET names == response.input.names
            named == {i \in DOMAIN names : names[i] # NoName}
        IN  /\ response.total_artists = Cardinality(named)
            /\ DOMAIN response.country_counts = {SeedOrUnknown(names[i]) : i \in named}
            /\ \A c \in DOMAIN response.country_counts :
                   response.country_counts[c]
                       = Cardinality({i \in named : SeedOrUnknown(names[i]) = c})
            /\ names = <<"Drake", "Drake", "UnknownArtist">>
                   => /\ response.country_counts = ("Canada" :> 2 @@ "Unknown" :> 1)
                      /\ response.total_artists = 3
                      /\ response.region_percentages
                             = ("North America" :> <<2, 3>> @@ "Unknown" :> <<1, 3>>)

\* the page Drake, Drake, UnknownArtist has been counted without the lookup
C18_Witness ==
    /\ ~USE_MB
    /\ response.op = "top"
    /\ response.status = 200
    /\ response.input.names = <<"Drake", "Drake", "UnknownArtist">>
    /\ response.country_counts = ("Canada" :> 2 @@ "Unknown" :> 1)

-----------------------------------------------------------------------------
(* The names community_create takes (Spec) *)

\* C19 (as claimed): community_create takes every non-empty name of at most
\* 64 characters, a name of one character included, and makes a community
\* with an empty member list; only empty and over-long names are refused.
C19_EveryNonEmptyNameAccepted ==
    [][\A name \in DOMAIN NameLength, code \in Codes :
          CreateRequest(name, code) =>
              IF NameLength[name] >= 1 /\ NameLength[name] <= 64
              THEN /\ response'.status = 200
                   /\ code \in DOMAIN communities'
                   /\ list_objs'[comm_objs'[communities'[code]].members] = <<>>
              ELSE /\ response'.status = 422
                   /\ UNCHANGED storeVars]_vars

\* C19 (amended): community_create takes every name of 2 to 64 characters
\* and makes a community with that name and an empty member list; every
\* other name (empty, of one character, of more than 64) is refused with 422
\* and the store stays as it was.
C19_NamesOfTwoToSixtyFourAccepted ==
    [][\A name \in DOMAIN NameLength, code \in Codes :
          CreateRequest(name, code) =>
              IF NameLength[name] >= 2 /\ NameLength[name] <= 64
              THEN /\ response'.status = 200
                   /\ code \in DOMAIN communities'
                   /\ comm_objs'[communities'[code]].name = name
                   /\ list_objs'[comm_objs'[communities'[code]].members] = <<>>
              ELSE /\ response'.status = 422
                   /\ UNCHANGED storeVars]_vars

\* a name of one character has been refused while a community exists
C19_Witness ==
    /\ response.op = "create"
    /\ response.status = 422
    /\ NameLength[response.name] = 1
    /\ communities # EmptyDict

-----------------------------------------------------------------------------
(* The cache after a lookup (SpecResolver) *)

\* C20: with the lookup enabled, a resolver call that got as far as the
\* MusicBrainz request has written its outcome to the cache when it returns,
\* on every path: the cache has an entry for the name, which is the country
\* or area name that was returned, or the negative marker (None, or the empty
\* country MusicBrainz sent) when the call returned "Unknown"; after an
\* exception and after a body without candidate the entry is None.
C20_OutcomeCachedOnEveryPath ==
    (USE_MB /\ response.op = "resolve" /\ response.tier = "external") =>
        /\ response.name \in DOMAIN MB_COUNTRY_CACHE
        /\ IF response.country = "Unknown"
           THEN MB_COUNTRY_CACHE[response.name] \in {None, ""}
           ELSE MB_COUNTRY_CACHE[response.name] = response.country
        /\ (response.mb.kind = "raise" \/ response.mb.artists = <<>>)
              => MB_COUNTRY_CACHE[response.name] = None

\* a call whose request timed out has left the negative marker, next to an
\* entry another call left from an area name
C20_Witness ==
    /\ USE_MB
    /\ response.op = "resolve" /\ response.tier = "external"
    /\ response.mb.kind = "raise" /\ response.mb.exc = "Timeout"
    /\ MB_COUNTRY_CACHE[response.name] = None
    /\ \E n \in DOMAIN MB_COUNTRY_CACHE : MB_COUNTRY_CACHE[n] = "Belgium"

-----------------------------------------------------------------------------
(* The cache under concurrent resolver calls (SpecResolverConcurrent) *)

\* C21 (as claimed): the cache only grows and a key is written with one value
\* only: once a name has an entry, the entry is never removed and its value
\* never changes, also when two calls for the same uncached name run at once
\* and end differently (one times out, the other finds a country).
C21_CacheEntriesNeverChange ==
    [][\A artist_name \in DOMAIN MB_COUNTRY_CACHE :
          /\ artist_name \in DOMAIN MB_COUNTRY_CACHE'
          /\ MB_COUNTRY_CACHE'[artist_name] = MB_COUNTRY_CACHE[artist_name]]_vars

-----------------------------------------------------------------------------
(* The fields of the MusicBrainz candidate (SpecResolver) *)

\* a field of the candidate that carries a value
HasValue(field) == field \notin {Absent, None, ""}

\* C22 (as claimed): from the candidate MusicBrainz returned the resolver
\* takes the country when the candidate has one; otherwise the name of its
\* area, then of its begin-area, when there is one; otherwise the caller gets
\* "Unknown".  A country field that is present without a value does not keep
\* the area from being used.
C22_CountryThenAreaThenUnknown ==
    ( /\ USE_MB
      /\ response.op = "resolve" /\ response.tier = "external"
      /\ response.mb.kind = "body" /\ response.mb.artists # <<>> ) =>
        LET a == response.mb.artists[1]
        IN  response.country =
                IF HasValue(a.country) THEN a.country
                ELSE IF HasValue(a.area) THEN a.area
                ELSE IF HasValue(a.begin_area) THEN a.begin_area
                ELSE "Unknown"

-----------------------------------------------------------------------------
(* Members under concurrent joins (SpecConcurrent) *)

\* every id whose join on the community now registered under the code has
\* returned is in its member list, or is being put back by a join of its own
\* (a join that returns for a community whose code was given to another one
\* meanwhile, and the moment of an id's own rejoin, are not held against the
\* claim)
\* a join of the id on the community is between taking the id's old entry
\* out (line 119) and appending the new one (line 121)
Rejoining(code, id) ==
    \E w \in Workers : /\ req[w].pc \in {"load", "append"}
                       /\ req[w].comm = communities[code]
                       /\ req[w].who.id = id

JoinedAreMembers ==
    \A code \in DOMAIN communities \cap DOMAIN joined :
        \A id \in DOMAIN joined[code] :
            id \in MemberIds(MembersOf(code)) \/ Rejoining(code, id)

\* C23 (as claimed): membership is never lost.  Once a community_join of an
\* id on a community has returned, the id is a member of it in every later
\* state, also when joins of different ids on the same community overlap
\* (each reads the member list, assigns a filtered copy, then appends); and
\* the member count a join returns is the number of distinct ids that have
\* joined so far.
C23_MembershipNeverLost ==
    [][/\ JoinedAreMembers'
       /\ \A w \in Workers :
              ( /\ JoinReturn(w)
                /\ req[w].code \in DOMAIN communities
                /\ communities[req[w].code] = req[w].comm )
                 => response'.members = Cardinality(DOMAIN joined'[req[w].code])]_vars

-----------------------------------------------------------------------------
(* A rejoin next to community_get (SpecRejoin) *)

\* a community that has members when the requests begin
InitRejoin ==
    \E members \in SampleMemberLists(NumUsers) :
        /\ members # <<>>
        /\ communities = ("AB12CD" :> 1)
        /\ comm_objs = (1 :> [name |-> "Class A", members |-> 1])
        /\ list_objs = (1 :> members)
        /\ joined = ("AB12CD" :> [id \in DOMAIN members |-> members[id].snapshot])
        /\ response = NoResponse
        /\ req = [w \in Workers |-> IdleReq]
        /\ MB_COUNTRY_CACHE = EmptyDict
        /\ USE_MB = FALSE
        /\ mb_requests = [n \in ArtistNames |-> 0]
        /\ res = [w \in Workers |-> IdleRes]
        /\ calls = 0
        /\ since_mb = MaxElapsed

NextRejoin == JoinStep \/ GetStep

SpecRejoin == InitRejoin /\ [][NextRejoin]_vars

\* C24 (as claimed): a community_get that runs while a member rejoins never
\* sees a member list in the making: in what it returns, every id that was a
\* member when the get began is listed exactly once (with its old or its new
\* snapshot), and the group total_artists is the sum of the total_artists of
\* the members listed in the same result.
C24_GetSeesNoIntermediateList ==
    [][\A w \in Workers :
          GetReturn(w) =>
              LET listed == response'.members
              IN  /\ \A u \in req[w].known :
                         Cardinality({i \in DOMAIN listed :
                                         listed[i].spotify_id = u}) = 1
                  /\ response'.group_passport.total_artists
                         = SumOver([i \in DOMAIN listed |-> listed[i].total_artists],
                                   DOMAIN listed)]_vars

====
